---- MODULE Spec2Model ----
(***************************************************************************)
(* Model of the control flow of the edge-set-attention training code:      *)
(*   - custom_train, the epoch loop with checkpointing and early stopping  *)
(*     (graphgps_graph/graphgps/train/custom_train.py), specification Spec *)
(*   - train_epoch, the batch loop with gradient accumulation and          *)
(*     clipping (same file), specification SpecEpoch                       *)
(*   - load_dataset_master, the positional-encoding cache and the other    *)
(*     graph transforms (graphgps_node/graphgps/loader/master_loader.py),  *)
(*     specification SpecLoader                                            *)
(*   - main of gnn/train.py, specification SpecMain                        *)
(*   - run_loop_settings and the run loop of the main script               *)
(*     (transfer_learning/graphgps_3d/main.py), specification SpecRuns     *)
(*   - join_dataset_splits, compute_indegree_histogram and the preformat_  *)
(*     functions of master_loader.py, one call each, specifications        *)
(*     SpecJoin, SpecHist and SpecPreformat                                *)
(*   - the set-up of the loaders and loggers of one run of the main        *)
(*     script (transfer_learning/graphgps_3d/main.py), specification       *)
(*     SpecPipeline                                                        *)
(* The programs share no state; each specification leaves the variables    *)
(* of the others at their idle values.                                     *)
(***************************************************************************)
EXTENDS Integers, Sequences, FiniteSets, TLC

(* ---- bounds of the model ---- *)
MaxEpoch == 4
MaxPatience == 1
MaxPeriod == 2
MaxLoss == 2
MaxBatches == 3
MaxAccum == 3
MaxTrainEpochs == 2
MaxCalls == 3
MaxExpCount == 2
MaxSeed == 2
MaxSplitIndex == 1
MaxSplits == 2
MaxRepeat == 3
MaxDatasets == 4
MaxSize == 3
MaxGraphs == 2
MaxNodes == 2

VARIABLES
    cfg,          \* the graphgym configuration read by custom_train
    disk,         \* epochs whose checkpoint file exists in the run directory
    pc,           \* position of custom_train: idle, start, loop, closing, done, error
    start_epoch,  \* custom_train's start_epoch
    cur_epoch,    \* the loop variable of the epoch loop
    perf,         \* perf[1], perf[2], perf[3]: the train, val and test lists
    best_epoch,   \* <<>> while the local is unbound, <<b>> once assigned
    calls,        \* calls made by the most recent iteration of the loop, in order
    ran,          \* epochs whose loop body was entered, in order
    sched,        \* every scheduler.step call: <<>> without argument, <<loss>> with
    evals,        \* validation loss measured by each eval_epoch(val) so far
    saved,        \* epochs handed to save_ckpt during this run, in order
    broke,        \* whether the loop was left by its break statement
    error,        \* the exception that ended custom_train, "" if none
    closed,       \* number of loggers closed
    wandb,        \* state of the wandb run: off, running, finished
    \* -- train_epoch --
    tcfg,         \* len(loader), batch_accumulation, cfg.optim.clip_grad_norm
    tpc,          \* position of train_epoch: idle, batch, step, log, end
    epoch_no,     \* which call of train_epoch this is (1 for the first epoch)
    iter,         \* the loop variable of the batch loop (0-based)
    grads,        \* batches <<epoch_no, iter>> whose gradient sits in the .grad buffers
    scaled,       \* whether the .grad buffers hold gradients of the scaled loss
    todo,         \* calls of the current parameter update still to be made
    ops,          \* calls of the most recent parameter update made so far
    unscale_calls,   \* grad_scaler.unscale_ calls since the last grad_scaler.update
    clipped_scaled,  \* whether clip_grad_norm_ ever ran on scaled gradients
    applied,      \* per batch, the number of optimizer steps that used its gradient
    opt_steps,    \* grad_scaler.step(optimizer) calls in the current epoch
    stepped_after, \* batches (1-based) of the current epoch after which the optimizer stepped
    \* -- load_dataset_master --
    lcfg,         \* cfg.prep and the posenc_ER* switches, the same in every call
    files,        \* per dataset name: <<>> or <<content>> of <name>_precomputed_posenc.pt
    log,          \* one record per completed call of load_dataset_master
    \* -- main of gnn/train.py --
    args,         \* argsdict, and whether validate_gnn_argparse_arguments accepts it
    mpc,          \* position of main
    monitor,      \* the local monitor_loss_name
    effects,      \* what main has done so far, in order
    raised,       \* the exception that ended main: <<>> or <<type, message>>
    \* -- run_loop_settings and the run loop of graphgps_3d/main.py --
    rargs,        \* args.repeat and the configuration as loaded: seed, split_index, run_multiple_splits
    rpc,          \* position of the main script: idle, settings, loop, done, error
    settings,     \* what run_loop_settings returned: <<run_ids, seeds, split_indices>>
    cfg_seed,     \* cfg.seed, as the loop assigns it
    cfg_split,    \* cfg.dataset.split_index, as the loop assigns it
    runs,         \* one record per run executed: run_id, seed, split_index
    rerror,       \* the exception that ended the script, "" if none
    \* -- one call of a function of master_loader.py --
    cpc,          \* idle, call, returned, raised
    call_in,      \* the arguments of the call
    call_out      \* the value returned or the exception raised

trainVars == <<cfg, disk, pc, start_epoch, cur_epoch, perf, best_epoch, calls,
               ran, sched, evals, saved, broke, error, closed, wandb>>

epochVars == <<tcfg, tpc, epoch_no, iter, grads, scaled, todo, ops, unscale_calls,
               clipped_scaled, applied, opt_steps, stepped_after>>

loaderVars == <<lcfg, files, log>>

mainVars == <<args, mpc, monitor, effects, raised>>

runVars == <<rargs, rpc, settings, cfg_seed, cfg_split, runs, rerror>>

callVars == <<cpc, call_in, call_out>>

vars == <<trainVars, epochVars, loaderVars, mainVars, runVars, callVars>>

\* custom_train is not running.
TrainIdle ==
    /\ cfg = <<>> /\ disk = {} /\ pc = "idle" /\ start_epoch = 0 /\ cur_epoch = 0
    /\ perf = <<>> /\ best_epoch = <<>> /\ calls = <<>> /\ ran = <<>>
    /\ sched = <<>> /\ evals = <<>> /\ saved = <<>> /\ broke = FALSE
    /\ error = "" /\ closed = 0 /\ wandb = "off"

\* load_dataset_master is not called.
LoaderIdle == lcfg = <<>> /\ files = <<>> /\ log = <<>>

\* main of gnn/train.py is not running.
MainIdle ==
    /\ args = <<>> /\ mpc = "idle" /\ monitor = "" /\ effects = <<>>
    /\ raised = <<>>

\* The main script of graphgps_3d is not running.
RunIdle ==
    /\ rargs = <<>> /\ rpc = "idle" /\ settings = <<>> /\ cfg_seed = 0
    /\ cfg_split = 0 /\ runs = <<>> /\ rerror = ""

\* No function of master_loader.py is called and no pipeline is set up.
CallIdle == cpc = "idle" /\ call_in = <<>> /\ call_out = <<>>

\* train_epoch is not running.
EpochIdle ==
    /\ tcfg = <<>> /\ tpc = "idle" /\ epoch_no = 0 /\ iter = 0 /\ grads = {}
    /\ scaled = FALSE /\ todo = <<>> /\ ops = <<>> /\ unscale_calls = 0
    /\ clipped_scaled = FALSE /\ applied = <<>> /\ opt_steps = 0
    /\ stepped_after = {}

(* ---- helpers ---- *)
Last(s) == s[Len(s)]

Range(s) == {s[i] : i \in 1..Len(s)}

Max(S) == CHOOSE x \in S : \A y \in S : y <= x

\* Number of loggers and loaders main.py hands to custom_train: train, val, test.
NumSplits == 3

Losses == 1..MaxLoss

Schedulers == {"reduce_on_plateau", "cosine_with_warmup"}

(* ---- torch_geometric.graphgym functions called by custom_train ---- *)

\* checkpoint.load_ckpt with epoch_resume = -1: the epoch after the latest
\* checkpoint, 0 when the run directory holds none.
LoadCkpt(d) == IF d = {} THEN 0 ELSE Max(d) + 1

\* utils.epoch.is_eval_epoch
is_eval_epoch(c, e) ==
    \/ (e + 1) % c.eval_period = 0
    \/ e = 0
    \/ e + 1 = c.max_epoch

\* utils.epoch.is_ckpt_epoch
is_ckpt_epoch(c, e) ==
    \/ (e + 1) % c.ckpt_period = 0
    \/ e + 1 = c.max_epoch

(* ---- custom_train ---- *)
(* cfg.metric_best is 'auto': best_epoch is the argmin of the validation    *)
(* loss. Only the validation loss steers the loop, so the entries of the   *)
(* train and test lists carry loss 0.                                      *)

\* start_epoch = 0; if cfg.train.auto_resume: start_epoch = load_ckpt(...)
StartEpoch(c, d) == IF c.auto_resume THEN LoadCkpt(d) ELSE 0

\* Mutant: the range runs one epoch past cfg.optim.max_epoch.
EpochRange_offbyone(c, s) == s .. c.max_epoch

\* range(start_epoch, cfg.optim.max_epoch)
EpochRange(c, s) == s .. (c.max_epoch - 1)

\* numpy argmin: the 0-based index of the first smallest element.
ArgMin(s) ==
    (CHOOSE i \in 1..Len(s) :
        /\ \A j \in 1..Len(s) : s[i] <= s[j]
        /\ \A j \in 1..(i - 1) : s[j] > s[i]) - 1

\* best_epoch = np.array([float(vp["loss"]) for vp in val_perf]).argmin()
BestEpoch(val_perf) == ArgMin([i \in 1..Len(val_perf) |-> val_perf[i].loss])

\* Mutant: the scheduler is given the first validation loss, not the latest.
SchedulerStep_first(c, val_perf) ==
    IF c.scheduler = "reduce_on_plateau" THEN <<val_perf[1].loss>> ELSE <<>>

\* scheduler.step(val_perf[-1]["loss"]) for reduce_on_plateau, scheduler.step() otherwise
SchedulerStep(c, val_perf) ==
    IF c.scheduler = "reduce_on_plateau" THEN <<Last(val_perf).loss>> ELSE <<>>

\* cfg.train.enable_ckpt and not cfg.train.ckpt_best and is_ckpt_epoch(cur_epoch)
PeriodicCkpt(c, e) == c.enable_ckpt /\ ~c.ckpt_best /\ is_ckpt_epoch(c, e)

\* cfg.train.enable_ckpt and cfg.train.ckpt_best and best_epoch == cur_epoch
BestCkpt(c, best, e) == c.enable_ckpt /\ c.ckpt_best /\ best = e

\* best_epoch > -1 and cur_epoch - best_epoch > cfg.optim.early_stopping_patience
EarlyStop(c, best, e) == best > -1 /\ e - best > c.early_stopping_patience

\* The calls one iteration of the loop makes, in program order.
EpochCalls(c, e, periodic, bestsave) ==
    <<"train_epoch">>
    \o (IF is_eval_epoch(c, e) THEN <<"eval_epoch", "eval_epoch">> ELSE <<>>)
    \o <<"scheduler.step">>
    \o (IF periodic THEN <<"save_ckpt">> ELSE <<>>)
    \o (IF c.wandb_use THEN <<"run.log">> ELSE <<>>)
    \o (IF bestsave THEN <<"save_ckpt">> ELSE <<>>)

\* save_ckpt(model, optimizer, scheduler, cur_epoch)
SaveCkpt(d, e) == d \cup {e}

\* checkpoint.clean_ckpt: removes every checkpoint but the latest.
CleanCkpt(d) == IF d = {} THEN d ELSE {Max(d)}

\* for logger in loggers: logger.close()
CloseLoggers(n) == n

\* if cfg.wandb.use: run.finish()
WandbFinish(c, w) == IF c.wandb_use THEN "finished" ELSE w

\* Mutant: a failed import of wandb goes unnoticed.
WandbImport_unchecked(c) == IF c.wandb_use THEN "running" ELSE "off"

\* if cfg.wandb.use: try: import wandb / except: raise ImportError(...), then
\* wandb.init: the state of the wandb run, or the exception raised.
WandbImport(c) ==
    IF c.wandb_use
    THEN (IF c.wandb_installed THEN "running" ELSE "ImportError")
    ELSE "off"

Configs ==
    [ max_epoch : 1..MaxEpoch,
      early_stopping_patience : 0..MaxPatience,
      eval_period : 1..MaxPeriod,
      ckpt_period : 1..MaxPeriod,
      auto_resume : BOOLEAN,
      enable_ckpt : BOOLEAN,
      ckpt_best : BOOLEAN,
      ckpt_clean : BOOLEAN,
      scheduler : Schedulers,
      wandb_use : BOOLEAN,
      wandb_installed : BOOLEAN ]       \* whether `import wandb` succeeds

\* The run directory before custom_train: no checkpoint, or the checkpoint of
\* one epoch of an earlier run with the same cfg.optim.max_epoch. Without
\* auto_resume the run directory is made afresh.
Disks(c) ==
    IF c.auto_resume THEN {{}} \cup {{e} : e \in 0..(c.max_epoch - 1)} ELSE {{}}

InitTrain ==
    /\ cfg \in Configs
    /\ disk \in Disks(cfg)
    /\ pc = "start"
    /\ start_epoch = 0
    /\ cur_epoch = 0
    /\ perf = <<<<>>, <<>>, <<>>>>
    /\ best_epoch = <<>>
    /\ calls = <<>>
    /\ ran = <<>>
    /\ sched = <<>>
    /\ evals = <<>>
    /\ saved = <<>>
    /\ broke = FALSE
    /\ error = ""
    /\ closed = 0
    /\ wandb = "off"
    /\ EpochIdle /\ LoaderIdle /\ MainIdle /\ RunIdle /\ CallIdle

\* custom_train up to the loop: resume, wandb.init, the empty perf lists.
Setup ==
    /\ pc = "start"
    /\ LET s == StartEpoch(cfg, disk)
       IN /\ start_epoch' = s
          /\ cur_epoch' = s
          /\ pc' = IF EpochRange(cfg, s) = {} THEN "closing" ELSE "loop"
    /\ WandbImport(cfg) # "ImportError"
    /\ wandb' = WandbImport(cfg)
    /\ perf' = <<<<>>, <<>>, <<>>>>
    /\ UNCHANGED <<cfg, disk, best_epoch, calls, ran, sched, evals, saved,
                   broke, error, closed>>
    /\ UNCHANGED <<epochVars, loaderVars, mainVars, runVars, callVars>>

\* custom_train up to the failed import of wandb: start_epoch is set, then
\* ImportError("WandB is not installed.") leaves custom_train.
SetupImportError ==
    /\ pc = "start"
    /\ WandbImport(cfg) = "ImportError"
    /\ start_epoch' = StartEpoch(cfg, disk)
    /\ cur_epoch' = StartEpoch(cfg, disk)
    /\ error' = "ImportError"
    /\ pc' = "error"
    /\ UNCHANGED <<cfg, disk, perf, best_epoch, calls, ran, sched, evals, saved,
                   broke, closed, wandb>>
    /\ UNCHANGED <<epochVars, loaderVars, mainVars, runVars, callVars>>

\* One iteration of the loop in which `else: perf[i].append(perf[i][-1])` reads
\* an empty list: the IndexError leaves custom_train.
EpochIndexError ==
    /\ pc = "loop"
    /\ ~is_eval_epoch(cfg, cur_epoch)
    /\ perf[2] = <<>>
    /\ perf' = <<Append(perf[1], [loss |-> 0]), perf[2], perf[3]>>
    /\ calls' = <<"train_epoch">>
    /\ ran' = Append(ran, cur_epoch)
    /\ error' = "IndexError"
    /\ pc' = "error"
    /\ UNCHANGED <<cfg, disk, start_epoch, cur_epoch, best_epoch, sched, evals,
                   saved, broke, closed, wandb>>
    /\ UNCHANGED <<epochVars, loaderVars, mainVars, runVars, callVars>>

\* One complete iteration of the loop for cur_epoch; val is the validation
\* loss eval_epoch measures if this is an evaluation epoch.
EpochBody(val) ==
    LET e == cur_epoch
        ev == is_eval_epoch(cfg, e)
        p1 == Append(perf[1], [loss |-> 0])
        p2 == IF ev THEN Append(perf[2], [loss |-> val])
                    ELSE Append(perf[2], Last(perf[2]))
        p3 == IF ev THEN Append(perf[3], [loss |-> 0])
                    ELSE Append(perf[3], Last(perf[3]))
        best == IF ev THEN <<BestEpoch(p2)>> ELSE best_epoch
        periodic == PeriodicCkpt(cfg, e)
        bestsave == BestCkpt(cfg, best[1], e)
        stop == EarlyStop(cfg, best[1], e)
    IN /\ perf' = <<p1, p2, p3>>
       /\ evals' = IF ev THEN Append(evals, val) ELSE evals
       /\ sched' = Append(sched, SchedulerStep(cfg, p2))
       /\ best_epoch' = best
       /\ calls' = EpochCalls(cfg, e, periodic, bestsave)
       /\ saved' = saved \o (IF periodic THEN <<e>> ELSE <<>>)
                         \o (IF bestsave THEN <<e>> ELSE <<>>)
       /\ disk' = LET d1 == IF periodic THEN SaveCkpt(disk, e) ELSE disk
                       d2 == IF bestsave THEN SaveCkpt(d1, e) ELSE d1
                   IN IF bestsave /\ cfg.ckpt_clean THEN CleanCkpt(d2) ELSE d2
       /\ ran' = Append(ran, e)
       /\ broke' = stop
       /\ IF stop \/ (e + 1) \notin EpochRange(cfg, start_epoch)
          THEN pc' = "closing" /\ cur_epoch' = e
          ELSE pc' = "loop" /\ cur_epoch' = e + 1

Epoch ==
    /\ pc = "loop"
    /\ is_eval_epoch(cfg, cur_epoch) \/ perf[2] # <<>>
    /\ \E val \in Losses : EpochBody(val)
    /\ UNCHANGED <<cfg, start_epoch, error, closed, wandb>>
    /\ UNCHANGED <<epochVars, loaderVars, mainVars, runVars, callVars>>

\* custom_train after the loop: close the loggers, finish the wandb run.
Finish ==
    /\ pc = "closing"
    /\ closed' = CloseLoggers(NumSplits)
    /\ wandb' = WandbFinish(cfg, wandb)
    /\ disk' = IF cfg.ckpt_clean THEN CleanCkpt(disk) ELSE disk
    /\ pc' = "done"
    /\ UNCHANGED <<cfg, start_epoch, cur_epoch, perf, best_epoch, calls,
                   ran, sched, evals, saved, broke, error>>
    /\ UNCHANGED <<epochVars, loaderVars, mainVars, runVars, callVars>>

NextTrain == Setup \/ SetupImportError \/ Epoch \/ EpochIndexError \/ Finish

(* ---- properties of custom_train ---- *)

\* An iteration of the loop has completed, and no exception was raised.
EpochDone == ran # <<>> /\ error = ""

\* The epoch whose iteration ran last.
LastRan == Last(ran)

\* The epoch number of the best validation entry: perf[2] holds one entry per
\* epoch run, the first of them for start_epoch.
BestValEpoch ==
    start_epoch + ArgMin([i \in 1..Len(perf[2]) |-> perf[2][i].loss])

Positions(s, x) == {i \in 1..Len(s) : s[i] = x}

\* C1: the loop stops at the end of the first epoch that lies more than
\* early_stopping_patience epochs after the best validation epoch, and at no
\* earlier epoch, in fresh and in resumed runs alike.
C1_EarlyStopping ==
    EpochDone =>
        /\ (LastRan + 1 < cfg.max_epoch) =>
              ((pc # "loop") <=>
                   (LastRan - BestValEpoch > cfg.early_stopping_patience))
        /\ LastRan - BestValEpoch <= cfg.early_stopping_patience + 1

\* C2: with enable_ckpt and ckpt_best, save_ckpt is called at the end of
\* epoch e exactly when e is the best validation epoch so far, so the last
\* saved checkpoint is the one of the best validation epoch.
C2_BestCheckpoint ==
    (EpochDone /\ cfg.enable_ckpt /\ cfg.ckpt_best) =>
        /\ ("save_ckpt" \in Range(calls)) <=> (BestValEpoch = LastRan)
        /\ saved # <<>> /\ Last(saved) = BestValEpoch

\* C3: with enable_ckpt and without ckpt_best, a checkpoint is saved at the
\* end of an epoch exactly when it is an evaluation epoch of period
\* cfg.train.eval_period.
C3_PeriodicCheckpoint ==
    (EpochDone /\ cfg.enable_ckpt /\ ~cfg.ckpt_best) =>
        (("save_ckpt" \in Range(calls)) <=> is_eval_epoch(cfg, LastRan))

\* C5: the loop starts at the epoch load_ckpt returned (0 without
\* auto_resume), runs consecutive epochs from there without repeating an
\* earlier one, runs at most max_epoch - start_epoch of them (none when
\* start_epoch = max_epoch), and once custom_train is past the loop, by
\* exhaustion or by early stop, every logger is closed and the wandb run, if
\* used, is finished.
C5_ResumeAndTermination ==
    /\ (pc # "start" /\ ran = <<>>) =>
          /\ start_epoch = (IF cfg.auto_resume /\ disk # {} THEN Max(disk) + 1 ELSE 0)
          /\ pc = "loop" => cur_epoch = start_epoch
    /\ \A i \in 1..Len(ran) : ran[i] = start_epoch + i - 1
    /\ pc # "start" => Len(ran) <= Max({0, cfg.max_epoch - start_epoch})
    /\ (pc # "start" /\ start_epoch = cfg.max_epoch) => ran = <<>>
    /\ pc = "done" =>
          /\ closed = NumSplits
          /\ cfg.wandb_use => wandb = "finished"

\* A resumed run with wandb that an early stop ended, after the loop.
C5_Witness ==
    /\ pc = "done"
    /\ broke
    /\ start_epoch > 0
    /\ Len(ran) > 1
    /\ cfg.wandb_use

\* C8: the scheduler is stepped once per completed epoch, after the epoch's
\* training and evaluation calls and before any save_ckpt of the epoch; for
\* reduce_on_plateau its argument is the validation loss of the most recent
\* evaluation, otherwise it has none.
C8_SchedulerStep ==
    /\ Len(sched) = Len(ran) - (IF error = "IndexError" THEN 1 ELSE 0)
    /\ EpochDone =>
          /\ Cardinality(Positions(calls, "scheduler.step")) = 1
          /\ \A i \in Positions(calls, "scheduler.step") :
                /\ \A j \in Positions(calls, "train_epoch") \cup
                            Positions(calls, "eval_epoch") : j < i
                /\ \A j \in Positions(calls, "save_ckpt") : i < j
          /\ Last(sched) = (IF cfg.scheduler = "reduce_on_plateau"
                            THEN <<Last(evals)>> ELSE <<>>)

\* A completed epoch without evaluation, under reduce_on_plateau, that saved
\* a checkpoint, after an evaluation whose loss was not the first one's.
C8_Witness ==
    /\ EpochDone
    /\ cfg.scheduler = "reduce_on_plateau"
    /\ ~is_eval_epoch(cfg, LastRan)
    /\ "save_ckpt" \in Range(calls)
    /\ Len(evals) > 1
    /\ Last(evals) # evals[1]

\* C11: with cfg.wandb.use and no importable wandb, custom_train ends with
\* ImportError, before any epoch has run and before any logger has
\* statistics; without cfg.wandb.use wandb is neither imported nor called.
C11_WandbImportError ==
    /\ (pc # "start" /\ cfg.wandb_use /\ ~cfg.wandb_installed) =>
          /\ pc = "error" /\ error = "ImportError"
          /\ ran = <<>> /\ calls = <<>> /\ sched = <<>>
          /\ \A i \in 1..Len(perf) : perf[i] = <<>>
          /\ closed = 0 /\ wandb = "off"
    /\ error = "ImportError" => (cfg.wandb_use /\ ~cfg.wandb_installed)
    /\ ~cfg.wandb_use => (wandb = "off" /\ "run.log" \notin Range(calls))

\* The import fails in a run that would have resumed from a checkpoint.
C11_Witness ==
    /\ error = "ImportError"
    /\ start_epoch > 0
    /\ start_epoch < cfg.max_epoch

\* C17: in fresh and resumed runs alike no epoch ends with an error, and
\* after every epoch the train, val and test lists all have one entry per
\* epoch run so far.
C17_PerfBookkeeping ==
    /\ error # "IndexError"
    /\ pc \in {"loop", "closing", "done"} =>
          \A i \in 1..NumSplits : Len(perf[i]) = Len(ran)

\* C18: whenever best_epoch is compared with cur_epoch, at the end of an
\* epoch, it is the epoch number of the best validation entry, also in a run
\* resumed at start_epoch > 0.
C18_BestEpochAbsolute ==
    (EpochDone /\ best_epoch # <<>>) => best_epoch[1] = BestValEpoch

(* ---- train_epoch ---- *)

\* Mutant: the update after the last batch of the loader is left out.
StepNow_nolast(i, n, k) == (i + 1) % k = 0

\* ((iter + 1) % batch_accumulation == 0) or (iter + 1 == len(loader))
StepNow(i, n, k) == (i + 1) % k = 0 \/ i + 1 = n

\* Mutant: the gradients are clipped before they are unscaled.
StepOps_cliponscaled(clip) ==
    (IF clip THEN <<"clip_grad_norm_", "unscale_">> ELSE <<>>)
    \o <<"step", "update", "zero_grad">>

\* The calls of one parameter update, in program order.
StepOps(clip) ==
    (IF clip THEN <<"unscale_", "clip_grad_norm_">> ELSE <<>>)
    \o <<"step", "update", "zero_grad">>

TrainConfigs ==
    [ n : 1..MaxBatches,
      batch_accumulation : 1..MaxAccum,
      clip_grad_norm : BOOLEAN ]

\* The first call of train_epoch: custom_train made the optimizer and a fresh
\* GradScaler, no gradient is accumulated yet.
InitEpoch ==
    /\ tcfg \in TrainConfigs
    /\ tpc = "batch"
    /\ epoch_no = 1
    /\ iter = 0
    /\ grads = {}
    /\ scaled = FALSE
    /\ todo = <<>>
    /\ ops = <<>>
    /\ unscale_calls = 0
    /\ clipped_scaled = FALSE
    /\ applied = [b \in {} |-> 0]
    /\ opt_steps = 0
    /\ stepped_after = {}
    /\ TrainIdle /\ LoaderIdle /\ MainIdle /\ RunIdle /\ CallIdle

\* The forward pass of batch iter and grad_scaler.scale(loss).backward(),
\* then the test whether the parameters are updated after this batch.
Backward ==
    /\ tpc = "batch"
    /\ grads' = grads \cup {<<epoch_no, iter>>}
    /\ scaled' = TRUE
    /\ applied' = [b \in DOMAIN applied \cup {<<epoch_no, iter>>} |->
                      IF b \in DOMAIN applied THEN applied[b] ELSE 0]
    /\ IF StepNow(iter, tcfg.n, tcfg.batch_accumulation)
       THEN /\ todo' = StepOps(tcfg.clip_grad_norm)
            /\ ops' = <<>>
            /\ tpc' = "step"
       ELSE /\ tpc' = "log"
            /\ UNCHANGED <<todo, ops>>
    /\ UNCHANGED <<tcfg, epoch_no, iter, unscale_calls, clipped_scaled,
                   opt_steps, stepped_after>>
    /\ UNCHANGED <<trainVars, loaderVars, mainVars, runVars, callVars>>

\* The current call of the update is made; the next one, if any, follows.
Advance ==
    /\ ops' = Append(ops, Head(todo))
    /\ todo' = Tail(todo)
    /\ tpc' = IF Tail(todo) = <<>> THEN "log" ELSE "step"

\* grad_scaler.unscale_(optimizer)
Unscale ==
    /\ tpc = "step" /\ Head(todo) = "unscale_"
    /\ scaled' = FALSE
    /\ unscale_calls' = unscale_calls + 1
    /\ Advance
    /\ UNCHANGED <<tcfg, epoch_no, iter, grads, clipped_scaled, applied,
                   opt_steps, stepped_after>>
    /\ UNCHANGED <<trainVars, loaderVars, mainVars, runVars, callVars>>

\* torch.nn.utils.clip_grad_norm_(model.parameters(), 1.0)
ClipGradNorm ==
    /\ tpc = "step" /\ Head(todo) = "clip_grad_norm_"
    /\ clipped_scaled' = (clipped_scaled \/ scaled)
    /\ Advance
    /\ UNCHANGED <<tcfg, epoch_no, iter, grads, scaled, unscale_calls, applied,
                   opt_steps, stepped_after>>
    /\ UNCHANGED <<trainVars, loaderVars, mainVars, runVars, callVars>>

\* grad_scaler.step(optimizer): unscales the gradients if unscale_ was not
\* called for this update, then steps the optimizer with them. Gradient
\* values are not modelled: a GradScaler that finds inf or NaN gradients
\* skips optimizer.step, the call is counted here all the same.
ScalerStep ==
    /\ tpc = "step" /\ Head(todo) = "step"
    /\ scaled' = FALSE
    /\ applied' = [b \in DOMAIN applied |->
                      IF b \in grads THEN applied[b] + 1 ELSE applied[b]]
    /\ opt_steps' = opt_steps + 1
    /\ stepped_after' = stepped_after \cup {iter + 1}
    /\ Advance
    /\ UNCHANGED <<tcfg, epoch_no, iter, grads, unscale_calls, clipped_scaled>>
    /\ UNCHANGED <<trainVars, loaderVars, mainVars, runVars, callVars>>

\* grad_scaler.update(): ends the update, unscale_ may be called again.
ScalerUpdate ==
    /\ tpc = "step" /\ Head(todo) = "update"
    /\ unscale_calls' = 0
    /\ Advance
    /\ UNCHANGED <<tcfg, epoch_no, iter, grads, scaled, clipped_scaled, applied,
                   opt_steps, stepped_after>>
    /\ UNCHANGED <<trainVars, loaderVars, mainVars, runVars, callVars>>

\* optimizer.zero_grad()
ZeroGrad ==
    /\ tpc = "step" /\ Head(todo) = "zero_grad"
    /\ grads' = {}
    /\ scaled' = FALSE
    /\ Advance
    /\ UNCHANGED <<tcfg, epoch_no, iter, unscale_calls, clipped_scaled, applied,
                   opt_steps, stepped_after>>
    /\ UNCHANGED <<trainVars, loaderVars, mainVars, runVars, callVars>>

\* logger.update_stats(...), then the next batch or the end of the loader.
UpdateStats ==
    /\ tpc = "log"
    /\ IF iter + 1 < tcfg.n
       THEN iter' = iter + 1 /\ tpc' = "batch"
       ELSE iter' = iter /\ tpc' = "end"
    /\ UNCHANGED <<tcfg, epoch_no, grads, scaled, todo, ops, unscale_calls,
                   clipped_scaled, applied, opt_steps, stepped_after>>
    /\ UNCHANGED <<trainVars, loaderVars, mainVars, runVars, callVars>>

\* custom_train calls train_epoch for the next epoch, with the same model,
\* optimizer and grad_scaler (train_epoch does not zero the gradients first).
NextTrainEpoch ==
    /\ tpc = "end"
    /\ epoch_no < MaxTrainEpochs
    /\ epoch_no' = epoch_no + 1
    /\ iter' = 0
    /\ opt_steps' = 0
    /\ stepped_after' = {}
    /\ tpc' = "batch"
    /\ UNCHANGED <<tcfg, grads, scaled, todo, ops, unscale_calls,
                   clipped_scaled, applied>>
    /\ UNCHANGED <<trainVars, loaderVars, mainVars, runVars, callVars>>

NextEpoch ==
    \/ Backward \/ Unscale \/ ClipGradNorm \/ ScalerStep \/ ScalerUpdate
    \/ ZeroGrad \/ UpdateStats \/ NextTrainEpoch

SpecEpoch == InitEpoch /\ [][NextEpoch]_vars

(* ---- properties of train_epoch ---- *)

CeilDiv(a, b) == (a + b - 1) \div b

C9_ClippingOrder ==
    LET full == IF tcfg.clip_grad_norm
                THEN <<"unscale_", "clip_grad_norm_", "step", "update", "zero_grad">>
                ELSE <<"step", "update", "zero_grad">>
    IN /\ ("clip_grad_norm_" \in Range(ops)) => tcfg.clip_grad_norm
       /\ Len(ops) <= Len(full)
       /\ \A i \in 1..Len(ops) : ops[i] = full[i]
       /\ (tpc # "step" /\ opt_steps > 0) => ops = full
       /\ unscale_calls <= 1
       /\ ~clipped_scaled

\* With clipping, a completed update over two accumulated batches.
C9_Witness ==
    /\ tcfg.clip_grad_norm
    /\ tpc = "log"
    /\ ops = <<"unscale_", "clip_grad_norm_", "step", "update", "zero_grad">>
    /\ tcfg.batch_accumulation = 2
    /\ iter = 1

(* ---- load_dataset_master ---- *)

DatasetNames == {"ogbn-arxiv", "ZINC"}

\* The cfg.posenc_* keys of the model, without the posenc_ prefix.
NonERKeys == {"LapPE", "RWSE"}
ERKeys == {"ERN", "ERE"}

LoaderConfigs ==
    [ er : SUBSET ERKeys,             \* the posenc_ER* keys with enable set
      exp : BOOLEAN,                  \* cfg.prep.exp
      exp_count : 0..MaxExpCount,     \* cfg.prep.exp_count
      dist_enable : BOOLEAN ]         \* cfg.prep.dist_enable

\* pe_enabled_list: the enabled posenc_ keys that do not start with posenc_ER.
PeEnabledList(enabled) == {k \in enabled : k \notin ERKeys}

\* Mutant: the test for the cache file always fails.
CacheHit_never(f, name) == FALSE

\* os.path.isfile(precomputed_path); the path is made of cfg.dataset.name.
CacheHit(f, name) == f[name] # <<>>

\* The dataset after the cache block, as the set of positional encodings whose
\* statistics it holds: the content of the file, or the freshly computed ones.
AfterPosenc(f, name, pe) == IF CacheHit(f, name) THEN f[name][1] ELSE pe

\* The cache files after the cache block: torch.save only after a computation.
SavePosenc(f, name, pe) ==
    IF ~CacheHit(f, name) /\ pe # {} THEN [f EXCEPT ![name] = <<pe>>] ELSE f

\* Mutant: the expander rounds ignore the switch cfg.prep.exp.
ExpanderRounds_noswitch(c) == c.exp_count

\* if cfg.prep.exp: for j in range(cfg.prep.exp_count)
ExpanderRounds(c) == IF c.exp THEN c.exp_count ELSE 0

\* The pre_transform_in_memory calls after the cache block, in program order.
Transforms(c) ==
    [j \in 1..ExpanderRounds(c) |-> "generate_random_expander"]
    \o (IF c.dist_enable THEN <<"add_dist_features">> ELSE <<>>)
    \o (IF "ERN" \in c.er \/ "ERE" \in c.er
        THEN <<"effective_resistance_embedding",
               "effective_resistances_from_embedding">>
        ELSE <<>>)

\* What load_dataset_master returns.
Returns(name) ==
    IF name = "ogbn-arxiv" \/ name = "ogbn-proteins" THEN "dataset" ELSE "pair"

InitLoader ==
    /\ lcfg \in LoaderConfigs
    /\ files = [n \in DatasetNames |-> <<>>]
    /\ log = <<>>
    /\ TrainIdle /\ EpochIdle /\ MainIdle /\ RunIdle /\ CallIdle

\* One call load_dataset_master(format, name, dataset_dir) with cfg.dataset.name
\* = name and the non-ER positional encodings pe enabled.
LoadDatasetMaster(name, pe) ==
    LET pe_enabled_list == PeEnabledList(pe \cup lcfg.er)
        existed == CacheHit(files, name)
    IN /\ Len(log) < MaxCalls
       /\ files' = SavePosenc(files, name, pe_enabled_list)
       /\ log' = Append(log,
             [ name |-> name,
               posenc |-> pe,
               existed |-> existed,
               loaded |-> existed,
               computed |-> (~existed /\ pe_enabled_list # {}),
               wrote |-> (files'[name] # files[name]),
               cached |-> files'[name],
               transforms |-> Transforms(lcfg),
               dataset |-> AfterPosenc(files, name, pe_enabled_list)
                           \cup Range(Transforms(lcfg)),
               returns |-> Returns(name) ])
       /\ UNCHANGED lcfg
       /\ UNCHANGED <<trainVars, epochVars, mainVars, runVars, callVars>>

NextLoader == \E name \in DatasetNames, pe \in SUBSET NonERKeys :
                  LoadDatasetMaster(name, pe)

SpecLoader == InitLoader /\ [][NextLoader]_vars

(* ---- properties of load_dataset_master ---- *)

\* Number of calls among the first n of the log, for dataset d, that ran
\* compute_posenc_stats.
RECURSIVE Computed(_, _)
Computed(d, n) ==
    IF n = 0 THEN 0
    ELSE Computed(d, n - 1)
         + (IF log[n].name = d /\ log[n].computed THEN 1 ELSE 0)

\* C6: a call that finds the cache file loads it and computes nothing; a call
\* that finds none computes and writes the statistics if a non-ER positional
\* encoding is enabled, and neither computes nor writes otherwise; the file
\* exists exactly when an earlier call for the dataset wrote it; so
\* compute_posenc_stats runs at most once per dataset.
C6_PosencCacheOnce ==
    /\ \A j \in 1..Len(log) :
         LET r == log[j] IN
         /\ r.existed <=> \E i \in 1..(j - 1) : log[i].name = r.name /\ log[i].wrote
         /\ r.existed => (r.loaded /\ ~r.computed /\ ~r.wrote)
         /\ (~r.existed /\ r.posenc # {}) => (r.computed /\ r.wrote /\ ~r.loaded)
         /\ (~r.existed /\ r.posenc = {}) => (~r.computed /\ ~r.wrote /\ ~r.loaded)
    /\ \A d \in DatasetNames : Computed(d, Len(log)) <= 1

\* Three calls for one dataset: nothing enabled, then a computation, then a
\* load from the file.
C6_Witness ==
    /\ Len(log) = 3
    /\ \A j \in 1..3 : log[j].name = log[1].name
    /\ ~log[1].computed /\ ~log[1].wrote
    /\ log[2].computed /\ log[2].wrote
    /\ log[3].loaded /\ log[3].posenc # {}

\* The transforms a configuration asks for, stated from the switches.
Asked(c) ==
    (IF c.exp /\ c.exp_count > 0 THEN {"generate_random_expander"} ELSE {})
    \cup (IF c.dist_enable THEN {"add_dist_features"} ELSE {})
    \cup (IF c.er # {} THEN {"effective_resistance_embedding",
                             "effective_resistances_from_embedding"} ELSE {})

\* C7 as stated: a call that finds the cache file runs none of the transforms
\* an earlier call for the same dataset and configuration has run.
C7_TransformsOneTime ==
    \A i \in 1..Len(log) : \A j \in (i + 1)..Len(log) :
        (log[i].name = log[j].name /\ log[i].posenc = log[j].posenc
         /\ log[j].existed)
            => Range(log[i].transforms) \cap Range(log[j].transforms) = {}

\* C7 amended: the cache file holds positional-encoding statistics only, never
\* the result of the expander, distance or effective-resistance transforms;
\* every call runs exactly the transforms its configuration enables, with
\* the expander transform run exp_count times, whether or not the file exists.
C7_TransformsEveryCall ==
    /\ \A d \in DatasetNames :
         files[d] # <<>> => (files[d][1] # {} /\ files[d][1] \subseteq NonERKeys)
    /\ \A j \in 1..Len(log) :
         /\ Range(log[j].transforms) = Asked(lcfg)
         /\ Range(log[j].transforms) \subseteq log[j].dataset
         /\ Cardinality({k \in 1..Len(log[j].transforms) :
                 log[j].transforms[k] = "generate_random_expander"})
              = (IF lcfg.exp THEN lcfg.exp_count ELSE 0)

\* A second call for the same dataset and configuration that loads the cache
\* file and still runs all three kinds of transforms, two rounds of expanders.
C7_Witness ==
    /\ Len(log) >= 2
    /\ log[1].name = log[2].name /\ log[1].posenc = log[2].posenc
    /\ log[1].wrote /\ log[2].loaded
    /\ Len(log[2].transforms) = 5

\* C20: a dataset loaded from the cache file carries the statistics of
\* exactly the positional encodings enabled in the configuration of the call.
C20_CacheMatchesConfig ==
    \A j \in 1..Len(log) :
        log[j].loaded => (log[j].dataset \cap NonERKeys) = log[j].posenc

\* C22: every call of load_dataset_master returns the pair (dataset, scaler),
\* whatever the name of the dataset, so that a caller can unpack two values.
C22_ReturnsPair ==
    \A j \in 1..Len(log) : log[j].returns = "pair"

(* ---- main of gnn/train.py ---- *)

\* None is the string "None": argparse leaves an option that is not given at None.
RegressionDatasets ==
    {"ESOL", "FreeSolv", "Lipo", "QM9", "DOCKSTRING", "ZINC", "PCQM4Mv2",
     "lrgb-pept-struct"}

TargetDatasets == {"QM9", "DOCKSTRING"}

MainArgs ==
    [ dataset : RegressionDatasets \cup {"MUTAG", "Cora"},
      regression_loss_fn : {"None", "mae", "mse"},
      dataset_target_name : {"None", "alpha"},
      monitor_loss_name : {"None", "MCC", "Validation loss"},
      train_regime : {"None", "cpu", "gpu-32"},
      config_json_path : {"None", "config.json"},
      valid : BOOLEAN ]

\* check_is_node_level_dataset, on the dataset names of the model.
check_is_node_level_dataset(dataset_name) ==
    dataset_name \in {"PPI", "Cora", "CiteSeer"}

\* "MCC" in monitor_loss_name, on the loss names of the model.
HasMCC(name) == name \in {"MCC", "Validation MCC"}

\* validate_gnn_argparse_arguments(argsdict): whether it accepts argsdict.
validate_gnn_argparse_arguments(a) == a.valid

InitMain ==
    /\ args \in MainArgs
    /\ mpc = "validate"
    /\ monitor = args.monitor_loss_name
    /\ effects = <<>>
    /\ raised = <<>>
    /\ TrainIdle /\ EpochIdle /\ LoaderIdle /\ RunIdle /\ CallIdle

\* main ends with an exception of the given type and message.
Raise(type, msg) == mpc' = "failed" /\ raised' = <<type, msg>>

\* Lines 85-91.
Validate ==
    /\ mpc = "validate"
    /\ effects' = effects
                  \o (IF args.config_json_path # "None"
                      THEN <<"load_gnn_arguments_from_json">> ELSE <<>>)
                  \o <<"validate_gnn_argparse_arguments">>
    /\ IF validate_gnn_argparse_arguments(args)
       THEN mpc' = "seed" /\ UNCHANGED raised
       ELSE Raise("AssertionError", "validate_gnn_argparse_arguments")
    /\ UNCHANGED <<args, monitor>>
    /\ UNCHANGED <<trainVars, epochVars, loaderVars, runVars, callVars>>

\* Line 93.
SeedEverything ==
    /\ mpc = "seed"
    /\ effects' = Append(effects, "seed_everything")
    /\ mpc' = "monitor"
    /\ UNCHANGED <<args, monitor, raised>>
    /\ UNCHANGED <<trainVars, epochVars, loaderVars, runVars, callVars>>

\* Lines 114-115: the membership test on None is a TypeError.
MonitorName ==
    /\ mpc = "monitor"
    /\ IF monitor = "None"
       THEN /\ Raise("TypeError", "argument of type 'NoneType' is not iterable")
            /\ UNCHANGED monitor
       ELSE /\ monitor' = IF monitor = "MCC" \/ HasMCC(monitor)
                          THEN "Validation MCC" ELSE monitor
            /\ mpc' = "assert_regr"
            /\ UNCHANGED raised
    /\ UNCHANGED <<args, effects>>
    /\ UNCHANGED <<trainVars, epochVars, loaderVars, runVars, callVars>>

\* Lines 117-118.
AssertRegression ==
    /\ mpc = "assert_regr"
    /\ IF args.dataset \in RegressionDatasets /\ args.regression_loss_fn = "None"
       THEN Raise("AssertionError",
                  "A loss functions must be specified for regression tasks!")
       ELSE mpc' = "assert_target" /\ UNCHANGED raised
    /\ UNCHANGED <<args, monitor, effects>>
    /\ UNCHANGED <<trainVars, epochVars, loaderVars, runVars, callVars>>

\* Lines 120-121.
AssertTarget ==
    /\ mpc = "assert_target"
    /\ IF args.dataset \in TargetDatasets /\ args.dataset_target_name = "None"
       THEN Raise("AssertionError",
                  "A target must be specified for QM9 and DOCKSTRING!")
       ELSE mpc' = "load" /\ UNCHANGED raised
    /\ UNCHANGED <<args, monitor, effects>>
    /\ UNCHANGED <<trainVars, epochVars, loaderVars, runVars, callVars>>

\* Lines 126-151: the dataset is loaded and the three loaders are made.
LoadData ==
    /\ mpc = "load"
    /\ effects' = effects
          \o << IF check_is_node_level_dataset(args.dataset)
                THEN "get_dataset_train_val_test(node)"
                ELSE "get_dataset_train_val_test(graph)",
                "DataLoader", "DataLoader", "DataLoader" >>
    /\ mpc' = "output"
    /\ UNCHANGED <<args, monitor, raised>>
    /\ UNCHANGED <<trainVars, epochVars, loaderVars, runVars, callVars>>

\* Lines 154-159: the output directory and the saved configuration.
MakeOutput ==
    /\ mpc = "output"
    /\ effects' = effects \o <<"mkdir", "save_gnn_arguments_to_json">>
    /\ mpc' = "setup"
    /\ UNCHANGED <<args, monitor, raised>>
    /\ UNCHANGED <<trainVars, epochVars, loaderVars, runVars, callVars>>

\* Lines 162-223: logger, callbacks, model and trainer; "gpu" in train_regime
\* at line 217 is a TypeError when no train regime is given.
SetUp ==
    /\ mpc = "setup"
    /\ IF args.train_regime = "None"
       THEN /\ effects' = effects \o <<"WandbLogger", "Estimator">>
            /\ Raise("TypeError", "argument of type 'NoneType' is not iterable")
       ELSE /\ effects' = effects \o <<"WandbLogger", "Estimator", "Trainer">>
            /\ mpc' = "fit"
            /\ UNCHANGED raised
    /\ UNCHANGED <<args, monitor>>
    /\ UNCHANGED <<trainVars, epochVars, loaderVars, runVars, callVars>>

\* Lines 225-227.
Fit ==
    /\ mpc = "fit"
    /\ effects' = Append(effects, "trainer.fit")
    /\ mpc' = "test"
    /\ UNCHANGED <<args, monitor, raised>>
    /\ UNCHANGED <<trainVars, epochVars, loaderVars, runVars, callVars>>

\* Line 228.
Test ==
    /\ mpc = "test"
    /\ effects' = Append(effects, "trainer.test(best)")
    /\ mpc' = "save"
    /\ UNCHANGED <<args, monitor, raised>>
    /\ UNCHANGED <<trainVars, epochVars, loaderVars, runVars, callVars>>

\* Mutant: the wandb run is finished before the files are written.
SaveEffects_finishfirst ==
    <<"wandb.finish", "np.save", "np.save", "np.save",
      "wandb.save", "wandb.save", "wandb.save", "wandb.save">>

\* Lines 235-248: the three np.save, the four wandb.save, wandb.finish.
SaveEffects ==
    <<"np.save", "np.save", "np.save",
      "wandb.save", "wandb.save", "wandb.save", "wandb.save", "wandb.finish">>

\* Lines 231-248.
SaveMetrics ==
    /\ mpc = "save"
    /\ effects' = effects \o SaveEffects
    /\ mpc' = "done"
    /\ UNCHANGED <<args, monitor, raised>>
    /\ UNCHANGED <<trainVars, epochVars, loaderVars, runVars, callVars>>

NextMain ==
    \/ Validate \/ SeedEverything \/ MonitorName \/ AssertRegression
    \/ AssertTarget \/ LoadData \/ MakeOutput \/ SetUp \/ Fit \/ Test
    \/ SaveMetrics

SpecMain == InitMain /\ [][NextMain]_vars

(* ---- properties of main ---- *)

\* C10: with a regression dataset and no regression loss function, or with
\* QM9 or DOCKSTRING and no target name, main loads no dataset, writes no
\* output directory or configuration and starts no training, and the
\* exception that ends it is an AssertionError.
C10_ArgumentAssertions ==
    LET no_fn == /\ args.dataset \in {"ESOL", "FreeSolv", "Lipo", "QM9",
                        "DOCKSTRING", "ZINC", "PCQM4Mv2", "lrgb-pept-struct"}
                 /\ args.regression_loss_fn = "None"
        no_target == /\ args.dataset \in {"QM9", "DOCKSTRING"}
                     /\ args.dataset_target_name = "None"
    IN (mpc # "idle" /\ (no_fn \/ no_target)) =>
          /\ Range(effects) \subseteq
                {"load_gnn_arguments_from_json",
                 "validate_gnn_argparse_arguments", "seed_everything"}
          /\ mpc \in {"validate", "seed", "monitor", "assert_regr",
                      "assert_target", "failed"}
          /\ mpc = "failed" => raised[1] = "AssertionError"

\* All of a's positions in effects precede all of b's, and b is not there
\* without a.
Precedes(a, b) ==
    /\ \A i \in Positions(effects, a), j \in Positions(effects, b) : i < j
    /\ Positions(effects, b) # {} => Positions(effects, a) # {}

\* C12: validation precedes seeding, which precedes dataset loading, which
\* precedes model construction, which precedes trainer.fit; the test runs
\* after fit, on the best checkpoint; the three result files are written
\* after the test; wandb.finish is the last step of a run that ends normally.
C12_MainOrder ==
    LET load == IF check_is_node_level_dataset(args.dataset)
                THEN "get_dataset_train_val_test(node)"
                ELSE "get_dataset_train_val_test(graph)"
    IN mpc # "idle" =>
        /\ Precedes("validate_gnn_argparse_arguments", "seed_everything")
        /\ Precedes("seed_everything", load)
        /\ Precedes(load, "Estimator")
        /\ Precedes("Estimator", "trainer.fit")
        /\ Precedes("trainer.fit", "trainer.test(best)")
        /\ Precedes("trainer.test(best)", "np.save")
        /\ Precedes("np.save", "wandb.save")
        /\ \A i \in Positions(effects, "wandb.finish") : i = Len(effects)
        /\ mpc = "done" =>
              /\ Last(effects) = "wandb.finish"
              /\ Cardinality(Positions(effects, "np.save")) = 3
              /\ Cardinality(Positions(effects, "trainer.fit")) = 1
              /\ Cardinality(Positions(effects, "trainer.test(best)")) = 1

\* A run on a node-level dataset, configured from a json file, that ended
\* normally.
C12_Witness ==
    /\ mpc = "done"
    /\ args.dataset = "Cora"
    /\ args.config_json_path # "None"

(* ---- run_loop_settings and the run loop of graphgps_3d/main.py ---- *)

RECURSIVE SeqsUpTo(_, _)
\* The sequences over S of length at most n.
SeqsUpTo(S, n) ==
    IF n = 0 THEN {<<>>}
    ELSE LET shorter == SeqsUpTo(S, n - 1)
         IN shorter \cup {Append(q, x) : q \in shorter, x \in S}

RunArgs ==
    [ repeat : 0..MaxRepeat,                                   \* args.repeat
      seed : 0..MaxSeed,                                       \* cfg.seed
      split_index : 0..MaxSplitIndex,                          \* cfg.dataset.split_index
      run_multiple_splits : SeqsUpTo(0..MaxSplitIndex, MaxSplits) ]

\* Mutant: every seed is an increment of the seed of the run before it, as if
\* read from a cfg.seed that the earlier runs had changed.
MultiSeedSeeds_cumulative(seed, n) == [x \in 1..n |-> seed + ((x - 1) * x) \div 2]

\* seeds = [cfg.seed + x for x in range(num_iterations)]
MultiSeedSeeds(seed, n) == [x \in 1..n |-> seed + (x - 1)]

\* Mutant: the seed is not reset for the runs over the splits.
MultiSplitSeeds_counting(seed, n) == [x \in 1..n |-> seed + (x - 1)]

\* seeds = [cfg.seed] * num_iterations
MultiSplitSeeds(seed, n) == [x \in 1..n |-> seed]

\* Whether run_loop_settings raises NotImplementedError.
SettingsUnsupported(a) == Len(a.run_multiple_splits) # 0 /\ a.repeat # 1

\* The triple run_ids, seeds, split_indices that run_loop_settings returns.
RunLoopSettings(a) ==
    IF Len(a.run_multiple_splits) = 0
    THEN LET seeds == MultiSeedSeeds(a.seed, a.repeat)
         IN << seeds, seeds, [x \in 1..a.repeat |-> a.split_index] >>
    ELSE LET n == Len(a.run_multiple_splits)
         IN << a.run_multiple_splits, MultiSplitSeeds(a.seed, n),
               a.run_multiple_splits >>

\* Number of iterations of a loop over zip(run_ids, seeds, split_indices).
ZipLen(t) == CHOOSE m \in {Len(t[1]), Len(t[2]), Len(t[3])} :
                 \A i \in 1..3 : m <= Len(t[i])

InitRuns ==
    /\ rargs \in RunArgs
    /\ rpc = "settings"
    /\ settings = <<>>
    /\ cfg_seed = rargs.seed
    /\ cfg_split = rargs.split_index
    /\ runs = <<>>
    /\ rerror = ""
    /\ TrainIdle /\ EpochIdle /\ LoaderIdle /\ MainIdle /\ CallIdle

\* run_loop_settings() returns; it reads cfg as the loop has left it, which
\* at this one call is cfg as loaded.
CallRunLoopSettings ==
    /\ rpc = "settings"
    /\ LET a == [rargs EXCEPT !.seed = cfg_seed, !.split_index = cfg_split]
       IN /\ ~SettingsUnsupported(a)
          /\ settings' = RunLoopSettings(a)
          /\ rpc' = IF ZipLen(RunLoopSettings(a)) = 0 THEN "done" ELSE "loop"
    /\ UNCHANGED <<rargs, cfg_seed, cfg_split, runs, rerror>>
    /\ UNCHANGED <<trainVars, epochVars, loaderVars, mainVars, callVars>>

\* run_loop_settings() raises NotImplementedError, which ends the script.
RunLoopSettingsError ==
    /\ rpc = "settings"
    /\ SettingsUnsupported(rargs)
    /\ rerror' = "NotImplementedError"
    /\ rpc' = "error"
    /\ UNCHANGED <<rargs, settings, cfg_seed, cfg_split, runs>>
    /\ UNCHANGED <<trainVars, epochVars, loaderVars, mainVars, callVars>>

\* One iteration of the loop of the script: cfg.dataset.split_index, cfg.seed
\* and cfg.run_id are set, seed_everything(cfg.seed), then the run.
RunIteration ==
    /\ rpc = "loop"
    /\ LET k == Len(runs) + 1
       IN /\ cfg_split' = settings[3][k]
          /\ cfg_seed' = settings[2][k]
          /\ runs' = Append(runs, [ run_id |-> settings[1][k],
                                    seed |-> settings[2][k],
                                    split_index |-> settings[3][k] ])
          /\ rpc' = IF k = ZipLen(settings) THEN "done" ELSE "loop"
    /\ UNCHANGED <<rargs, settings, rerror>>
    /\ UNCHANGED <<trainVars, epochVars, loaderVars, mainVars, callVars>>

NextRuns == CallRunLoopSettings \/ RunLoopSettingsError \/ RunIteration

SpecRuns == InitRuns /\ [][NextRuns]_vars

(* ---- properties of run_loop_settings ---- *)

\* C13: with no run_multiple_splits, run_loop_settings returns args.repeat
\* iterations, seeds cfg.seed, cfg.seed + 1, ... of the seed as loaded, run
\* ids equal to the seeds and every split index cfg.dataset.split_index;
\* the three lists are equally long; run k of the loop has seed initial + k.
C13_MultiSeed ==
    /\ settings # <<>> =>
          (Len(settings[1]) = Len(settings[2]) /\ Len(settings[2]) = Len(settings[3]))
    /\ (settings # <<>> /\ Len(rargs.run_multiple_splits) = 0) =>
          /\ Len(settings[2]) = rargs.repeat
          /\ \A x \in 1..rargs.repeat :
                /\ settings[2][x] = rargs.seed + x - 1
                /\ settings[1][x] = settings[2][x]
                /\ settings[3][x] = rargs.split_index
          /\ \A k \in 1..Len(runs) : runs[k].seed = rargs.seed + (k - 1)
          /\ rpc = "done" => Len(runs) = rargs.repeat

\* All three of three repeats have run, from a seed that is not 0.
C13_Witness ==
    /\ rpc = "done"
    /\ Len(rargs.run_multiple_splits) = 0
    /\ rargs.seed > 0
    /\ Len(runs) = 3

\* C14: with run_multiple_splits and args.repeat other than 1 the script
\* ends with NotImplementedError and no run; with args.repeat = 1 there is
\* one iteration per entry, run ids and split indices are the entries, and
\* every iteration has the seed as loaded.
C14_MultiSplit ==
    Len(rargs.run_multiple_splits) # 0 =>
        /\ (rpc # "settings" /\ rargs.repeat # 1) =>
              /\ rpc = "error" /\ rerror = "NotImplementedError"
              /\ runs = <<>> /\ settings = <<>>
        /\ (rpc # "settings" /\ rargs.repeat = 1) =>
              /\ rerror = ""
              /\ settings[1] = rargs.run_multiple_splits
              /\ settings[3] = rargs.run_multiple_splits
              /\ Len(settings[2]) = Len(rargs.run_multiple_splits)
              /\ \A x \in 1..Len(settings[2]) : settings[2][x] = rargs.seed
              /\ \A k \in 1..Len(runs) :
                    /\ runs[k].seed = rargs.seed
                    /\ runs[k].split_index = rargs.run_multiple_splits[k]
                    /\ runs[k].run_id = rargs.run_multiple_splits[k]
              /\ rpc = "done" => Len(runs) = Len(rargs.run_multiple_splits)

\* Two different splits have run, from a seed that is not 0.
C14_Witness ==
    /\ rpc = "done"
    /\ Len(runs) = 2
    /\ runs[1].split_index # runs[2].split_index
    /\ rargs.seed > 0

(* ---- join_dataset_splits ---- *)

\* Python's list(range(a, b)).
PyRange(a, b) == [i \in 1..(b - a) |-> a + i - 1]

\* Split k of the input with n samples; <<k, i>> is its sample i, datasets[k].get(i).
SplitOf(k, n) == [i \in 1..n |-> <<k, i - 1>>]

\* The lists of datasets join_dataset_splits may be given: any number of
\* datasets of any sizes, with at least one sample when there are three.
JoinInputs ==
    { d \in UNION { [1..L -> 0..MaxSize] : L \in 0..MaxDatasets } :
          Len(d) = 3 => d[1] + d[2] + d[3] > 0 }

\* Mutant: every split is given the indices counted from 0.
SplitIdxs_fromzero(n1, n2, n3) == << PyRange(0, n1), PyRange(0, n2), PyRange(0, n3) >>

\* split_idxs = [list(range(n1)), list(range(n1, n1 + n2)),
\*               list(range(n1 + n2, n1 + n2 + n3))]
SplitIdxs(n1, n2, n3) ==
    << PyRange(0, n1), PyRange(n1, n1 + n2), PyRange(n1 + n2, n1 + n2 + n3) >>

\* data_list: the samples of the three datasets, one dataset after the other.
DataList(n1, n2, n3) == SplitOf(1, n1) \o SplitOf(2, n2) \o SplitOf(3, n3)

InitJoin ==
    /\ cpc = "call"
    /\ call_in \in JoinInputs
    /\ call_out = <<>>
    /\ TrainIdle /\ EpochIdle /\ LoaderIdle /\ MainIdle /\ RunIdle

\* join_dataset_splits(datasets) with three datasets: the joint dataset.
JoinDatasetSplits ==
    /\ cpc = "call"
    /\ Len(call_in) = 3
    /\ call_out' = [ data_list |-> DataList(call_in[1], call_in[2], call_in[3]),
                     split_idxs |-> SplitIdxs(call_in[1], call_in[2], call_in[3]) ]
    /\ cpc' = "returned"
    /\ UNCHANGED call_in
    /\ UNCHANGED <<trainVars, epochVars, loaderVars, mainVars, runVars>>

\* join_dataset_splits(datasets) with another number of datasets: the assert fails.
JoinAssertionError ==
    /\ cpc = "call"
    /\ Len(call_in) # 3
    /\ call_out' = <<"AssertionError", "Expecting train, val, test datasets">>
    /\ cpc' = "raised"
    /\ UNCHANGED call_in
    /\ UNCHANGED <<trainVars, epochVars, loaderVars, mainVars, runVars>>

NextJoin == JoinDatasetSplits \/ JoinAssertionError

SpecJoin == InitJoin /\ [][NextJoin]_vars

DegSize == 1000

\* In-degrees a node of the model may have: small ones, and the two on either
\* side of the end of the tensor.
InDegrees == {0, 1, DegSize - 1, DegSize}

\* A graph is the tensor d = degree(data.edge_index[1], num_nodes), the
\* in-degree of each of its nodes (edge_index may repeat an edge, so every
\* such tensor occurs); a dataset is a non-empty list of graphs.
Graphs == UNION { [1..n -> InDegrees] : n \in 1..MaxNodes }
HistInputs == UNION { [1..g -> Graphs] : g \in 1..MaxGraphs }

\* torch.bincount(d, minlength): entry i + 1 counts the occurrences of i in d;
\* the length is minlength, or max(d) + 1 if that is more.
Bincount(d, minlength) ==
    [i \in 1..Max({minlength, Max(Range(d)) + 1}) |->
        Cardinality({j \in 1..Len(d) : d[j] = i - 1})]

\* deg += b, for tensors of one dimension: the shapes must agree (a tensor
\* b of length 1 is broadcast); <<>> stands for the RuntimeError.
AddInPlace(deg, b) ==
    IF Len(b) = Len(deg) THEN <<[i \in 1..Len(deg) |-> deg[i] + b[i]]>>
    ELSE IF Len(b) = 1 THEN <<[i \in 1..Len(deg) |-> deg[i] + b[1]]>>
    ELSE <<>>

RECURSIVE HistLoop(_, _, _, _)
\* The loop `for data in dataset` from graph k on: <<>> if an addition raises,
\* else <<list>>, the list returned after the loop.
HistLoop(dataset, k, deg, max_degree) ==
    IF k > Len(dataset)
    THEN << SubSeq(deg, 1, max_degree + 1) >>
    ELSE LET d == dataset[k]
             sum == AddInPlace(deg, Bincount(d, Len(deg)))
         IN IF sum = <<>> THEN <<>>
            ELSE HistLoop(dataset, k + 1, sum[1], Max({max_degree, Max(Range(d))}))

\* compute_indegree_histogram(dataset): <<list>> or <<>> for the RuntimeError.
IndegreeHistogram(dataset) == HistLoop(dataset, 1, [i \in 1..DegSize |-> 0], 0)

InitHist ==
    /\ cpc = "call"
    /\ call_in \in HistInputs
    /\ call_out = <<>>
    /\ TrainIdle /\ EpochIdle /\ LoaderIdle /\ MainIdle /\ RunIdle

\* compute_indegree_histogram(dataset) returns the list.
ComputeIndegreeHistogram ==
    /\ cpc = "call"
    /\ IndegreeHistogram(call_in) # <<>>
    /\ call_out' = IndegreeHistogram(call_in)[1]
    /\ cpc' = "returned"
    /\ UNCHANGED call_in
    /\ UNCHANGED <<trainVars, epochVars, loaderVars, mainVars, runVars>>

\* compute_indegree_histogram(dataset) ends with the RuntimeError of `deg +=`.
HistogramRuntimeError ==
    /\ cpc = "call"
    /\ IndegreeHistogram(call_in) = <<>>
    /\ call_out' = <<"RuntimeError">>
    /\ cpc' = "raised"
    /\ UNCHANGED call_in
    /\ UNCHANGED <<trainVars, epochVars, loaderVars, mainVars, runVars>>

NextHist == ComputeIndegreeHistogram \/ HistogramRuntimeError

SpecHist == InitHist /\ [][NextHist]_vars

\* The in-degrees of all nodes of all graphs of the dataset of the call.
AllInDegrees == UNION {Range(call_in[g]) : g \in 1..Len(call_in)}

\* Number of nodes of the dataset of the call with in-degree i.
NodesWithInDegree(i) ==
    Cardinality({ <<g, j>> \in (1..Len(call_in)) \X (1..MaxNodes + 1) :
                     j <= Len(call_in[g]) /\ call_in[g][j] = i })

\* C16: for every dataset, whatever its largest in-degree, the call returns
\* a list of length largest in-degree + 1 whose entry i is the number of
\* nodes of the dataset with in-degree i.
C16_IndegreeHistogram ==
    cpc # "call" =>
        /\ cpc = "returned"
        /\ Len(call_out) = Max(AllInDegrees) + 1
        /\ \A i \in 0..(Len(call_out) - 1) :
              call_out[i + 1] = NodesWithInDegree(i)

(* ---- preformat_GNNBenchmarkDataset, preformat_TUDataset, preformat_ogbn ---- *)

PreformatFunctions ==
    {"preformat_GNNBenchmarkDataset", "preformat_TUDataset", "preformat_ogbn"}

PreformatNames ==
    {"MNIST", "CIFAR10", "PATTERN", "DD", "NCI1", "ENZYMES", "PROTEINS",
     "IMDB-BINARY", "COLLAB", "MUTAG", "ogbn-arxiv", "ogbn-proteins",
     "ogbn-products"}

\* name.startswith('IMDB-'), on the names of the model.
StartsWithIMDB(name) == name \in {"IMDB-BINARY", "IMDB-MULTI"}

\* The names for which a function takes a branch other than its `else`.
Supported(fn, name) ==
    IF fn = "preformat_GNNBenchmarkDataset" THEN name \in {"MNIST", "CIFAR10"}
    ELSE IF fn = "preformat_TUDataset"
         THEN name \in {"DD", "NCI1", "ENZYMES", "PROTEINS"}
              \/ StartsWithIMDB(name) \/ name = "COLLAB"
    ELSE name = "ogbn-arxiv" \/ name = "ogbn-proteins"

\* The constructor of the dataset class a function calls.
Constructor(fn) ==
    IF fn = "preformat_GNNBenchmarkDataset" THEN "GNNBenchmarkDataset"
    ELSE IF fn = "preformat_TUDataset" THEN "TUDataset"
    ELSE "PygNodePropPredDataset"

\* What the `else` branch does: the exception is constructed and dropped,
\* the statement has no `raise`.
ElseBranch == "ValueError()"

InitPreformat ==
    /\ cpc = "call"
    /\ call_in \in [ fn : PreformatFunctions, name : PreformatNames,
                     add_self_loops : BOOLEAN ]
    /\ call_out = <<>>
    /\ TrainIdle /\ EpochIdle /\ LoaderIdle /\ MainIdle /\ RunIdle

\* The test of the name. For a name that is not supported the else branch
\* runs and control goes on: to the call of the constructor in
\* preformat_GNNBenchmarkDataset and preformat_TUDataset, to the end of the
\* function in preformat_ogbn.
PreformatCheckName ==
    /\ cpc = "call"
    /\ IF Supported(call_in.fn, call_in.name)
       THEN call_out' = call_out /\ cpc' = "load"
       ELSE /\ call_out' = Append(call_out, ElseBranch)
            /\ cpc' = IF call_in.fn = "preformat_ogbn" THEN "end" ELSE "load"
    /\ UNCHANGED call_in
    /\ UNCHANGED <<trainVars, epochVars, loaderVars, mainVars, runVars>>

\* Whether `func` is unbound when preformat_TUDataset reads it: no branch
\* but the else branch leaves it unassigned.
FuncUnbound(fn, name) == fn = "preformat_TUDataset" /\ ~Supported(fn, name)

\* preformat_TUDataset reads the unbound local `func` for the call of the
\* constructor: UnboundLocalError, before the constructor is entered.
PreformatUnboundLocal ==
    /\ cpc = "load"
    /\ FuncUnbound(call_in.fn, call_in.name)
    /\ call_out' = Append(call_out, "raise UnboundLocalError")
    /\ cpc' = "raised"
    /\ UNCHANGED call_in
    /\ UNCHANGED <<trainVars, epochVars, loaderVars, mainVars, runVars>>

\* The constructor of the dataset class loads the dataset.
PreformatLoad ==
    /\ cpc = "load"
    /\ ~FuncUnbound(call_in.fn, call_in.name)
    /\ call_out' = Append(call_out, Constructor(call_in.fn))
    /\ cpc' = "end"
    /\ UNCHANGED call_in
    /\ UNCHANGED <<trainVars, epochVars, loaderVars, mainVars, runVars>>

\* The constructor of the dataset class fails for a name the function does not
\* support: the library knows no such dataset, or cannot fetch it.
PreformatLoadFails ==
    /\ cpc = "load"
    /\ ~Supported(call_in.fn, call_in.name)
    /\ ~FuncUnbound(call_in.fn, call_in.name)
    /\ call_out' = Append(call_out, "library error")
    /\ cpc' = "raised"
    /\ UNCHANGED call_in
    /\ UNCHANGED <<trainVars, epochVars, loaderVars, mainVars, runVars>>

\* The rest of the function: the transforms and `return dataset`; in
\* preformat_ogbn with a name that is not supported, the end of the function,
\* which returns None.
PreformatReturn ==
    /\ cpc = "end"
    /\ call_out' = call_out
          \o (IF /\ call_in.fn = "preformat_ogbn" /\ call_in.name = "ogbn-arxiv"
                 /\ call_in.add_self_loops
              THEN <<"add_self_loops">> ELSE <<>>)
          \o (IF Constructor(call_in.fn) \in Range(call_out)
              THEN <<"return dataset">> ELSE <<"return None">>)
    /\ cpc' = "returned"
    /\ UNCHANGED call_in
    /\ UNCHANGED <<trainVars, epochVars, loaderVars, mainVars, runVars>>

NextPreformat ==
    \/ PreformatCheckName \/ PreformatUnboundLocal \/ PreformatLoad
    \/ PreformatLoadFails \/ PreformatReturn

SpecPreformat == InitPreformat /\ [][NextPreformat]_vars

\* C19: for a name that is not supported, each of the three functions ends
\* with a ValueError, loads no dataset and returns no value.
C19_UnsupportedNames ==
    LET unsupported ==
          \/ /\ call_in.fn = "preformat_GNNBenchmarkDataset"
             /\ call_in.name \notin {"MNIST", "CIFAR10"}
          \/ /\ call_in.fn = "preformat_TUDataset"
             /\ call_in.name \notin {"DD", "NCI1", "ENZYMES", "PROTEINS",
                                     "IMDB-BINARY", "IMDB-MULTI", "COLLAB"}
          \/ /\ call_in.fn = "preformat_ogbn"
             /\ call_in.name \notin {"ogbn-arxiv", "ogbn-proteins"}
    IN (cpc # "idle" /\ cpc # "call" /\ unsupported) =>
          /\ cpc = "raised"
          /\ call_out = <<"raise ValueError">>

(* ---- the pipeline set-up of one run of graphgps_3d/main.py ---- *)

PipelineNames == {"ogbn-arxiv", "ogbn-proteins", "ZINC", "Cora"}

\* The keys of dataset._data that matter to main.py.
SplitKeys ==
    {"train_graph_index", "val_graph_index", "test_graph_index",
     "val_mask", "test_mask"}

\* "val" in key, "test" in key, on the keys of the model.
ContainsVal(key) == key \in {"val_graph_index", "val_mask"}
ContainsTest(key) == key \in {"test_graph_index", "test_mask"}

\* set_dataset_info: cfg.share.num_splits, counted from the keys.
CountSplits(keys) ==
    1 + (IF \E k \in keys : ContainsVal(k) THEN 1 ELSE 0)
      + (IF \E k \in keys : ContainsTest(k) THEN 1 ELSE 0)

\* The keys create_loader reads from dataset.data, in program order: for a
\* graph task the index of each split, for any other task none.
LoaderKeys(task, n) ==
    IF task = "graph"
    THEN SubSeq(<<"train_graph_index", "val_graph_index", "test_graph_index">>,
                1, n)
    ELSE <<>>

\* The loaders create_loader builds, each by the data it iterates over and its
\* shuffle flag.
Loaders(task, n) ==
    [i \in 1..n |->
        [ data |-> IF task = "graph" THEN LoaderKeys(task, n)[i] ELSE "dataset",
          shuffle |-> (i = 1) ]]

\* create_logger: one logger per counted split, by name.
CreateLogger(n) == SubSeq(<<"train", "val", "test">>, 1, n)

\* loggers_2[0].name = "val", loggers_3[0].name = "test"
Renamed(l, name) == [l EXCEPT ![1] = name]

IsOgbn(name) == name = "ogbn-arxiv" \/ name = "ogbn-proteins"

\* Lines 248-261: the loggers handed on.
PipelineLoggers(name, n) ==
    IF IsOgbn(name)
    THEN CreateLogger(n) \o Renamed(CreateLogger(n), "val")
                         \o Renamed(CreateLogger(n), "test")
    ELSE CreateLogger(n)

\* Lines 254-261: loaders = loaders * 3 for the two ogbn names.
PipelineLoaders(name, l) == IF IsOgbn(name) THEN l \o l \o l ELSE l

\* One run: cfg.dataset.name, cfg.dataset.task, cfg.train.mode, the keys of
\* the loaded dataset, and what load_dataset_master returned. The module
\* main.py imports returns what load_dataset_master of master_loader.py
\* returns, or a pair.
InitPipeline ==
    /\ cpc = "create_dataset"
    /\ \E name \in PipelineNames, task \in {"graph", "node"},
          mode \in {"standard", "custom"}, keys \in SUBSET SplitKeys,
          returns \in {"pair", "dataset"} :
          /\ returns \in {Returns(name), "pair"}
          /\ call_in = [ name |-> name, task |-> task, mode |-> mode,
                         keys |-> keys, returns |-> returns ]
    /\ call_out = [ num_splits |-> 0, keys |-> call_in.keys, loaders |-> <<>>,
                    loggers |-> <<>>, handed |-> <<>>, error |-> "" ]
    /\ TrainIdle /\ EpochIdle /\ LoaderIdle /\ MainIdle /\ RunIdle

\* create_dataset: the result of load_dataset_master is unpacked into
\* dataset, scaler and set_dataset_info counts the splits.
CreateDataset ==
    /\ cpc = "create_dataset"
    /\ call_in.returns = "pair"
    /\ call_out' = [call_out EXCEPT !.num_splits = CountSplits(call_in.keys)]
    /\ cpc' = "create_loader"
    /\ UNCHANGED call_in
    /\ UNCHANGED <<trainVars, epochVars, loaderVars, mainVars, runVars>>

\* create_dataset when load_dataset_master returned the dataset alone: the
\* unpacking into two names iterates over the dataset, which holds one graph.
CreateDatasetUnpackError ==
    /\ cpc = "create_dataset"
    /\ call_in.returns = "dataset"
    /\ call_out' = [call_out EXCEPT !.error = "ValueError"]
    /\ cpc' = "raised"
    /\ UNCHANGED call_in
    /\ UNCHANGED <<trainVars, epochVars, loaderVars, mainVars, runVars>>

\* create_loader after create_dataset: one loader per counted split; the
\* index keys it read are deleted from dataset.data.
CreateLoader ==
    /\ cpc = "create_loader"
    /\ Range(LoaderKeys(call_in.task, call_out.num_splits)) \subseteq call_out.keys
    /\ call_out' =
          [call_out EXCEPT
             !.loaders = Loaders(call_in.task, call_out.num_splits),
             !.keys = call_out.keys
                        \ Range(LoaderKeys(call_in.task, call_out.num_splits))]
    /\ cpc' = "create_logger"
    /\ UNCHANGED call_in
    /\ UNCHANGED <<trainVars, epochVars, loaderVars, mainVars, runVars>>

\* create_loader for a graph task when dataset.data lacks an index it reads.
CreateLoaderKeyError ==
    /\ cpc = "create_loader"
    /\ ~(Range(LoaderKeys(call_in.task, call_out.num_splits))
            \subseteq call_out.keys)
    /\ call_out' = [call_out EXCEPT !.error = "KeyError"]
    /\ cpc' = "raised"
    /\ UNCHANGED call_in
    /\ UNCHANGED <<trainVars, epochVars, loaderVars, mainVars, runVars>>

\* Lines 248-261: create_logger and the duplication for the two ogbn names.
CreateLoggers ==
    /\ cpc = "create_logger"
    /\ call_out' =
          [call_out EXCEPT
             !.loggers = PipelineLoggers(call_in.name, call_out.num_splits),
             !.loaders = PipelineLoaders(call_in.name, call_out.loaders)]
    /\ cpc' = "create_model"
    /\ UNCHANGED call_in
    /\ UNCHANGED <<trainVars, epochVars, loaderVars, mainVars, runVars>>

\* Lines 262-277 with cfg.train.mode = "standard".
TrainStandard ==
    /\ cpc = "create_model"
    /\ call_in.mode = "standard"
    /\ call_out' = [call_out EXCEPT !.error = "NotImplementedError"]
    /\ cpc' = "raised"
    /\ UNCHANGED call_in
    /\ UNCHANGED <<trainVars, epochVars, loaderVars, mainVars, runVars>>

\* Lines 262-284: train_dict[cfg.train.mode](loggers, loaders, ...).
CallTrain ==
    /\ cpc = "create_model"
    /\ call_in.mode # "standard"
    /\ call_out' = [call_out EXCEPT
                      !.handed = <<call_out.loggers, call_out.loaders>>]
    /\ cpc' = "train"
    /\ UNCHANGED call_in
    /\ UNCHANGED <<trainVars, epochVars, loaderVars, mainVars, runVars>>

NextPipeline ==
    \/ CreateDataset \/ CreateDatasetUnpackError \/ CreateLoader
    \/ CreateLoaderKeyError \/ CreateLoggers \/ TrainStandard \/ CallTrain

SpecPipeline == InitPipeline /\ [][NextPipeline]_vars

\* C21: at the call of the training function the loggers are exactly three,
\* named train, val and test in that order, and the loaders are three, for
\* every dataset name and every number of splits counted.
C21_ThreeLoggersAndLoaders ==
    cpc = "train" =>
        /\ Len(call_out.handed[1]) = NumSplits
        /\ call_out.handed[1] = <<"train", "val", "test">>
        /\ Len(call_out.handed[2]) = NumSplits

Init == InitTrain

Next == NextTrain

Spec == Init /\ [][Next]_vars

====
